---- MODULE Spec2Model ----
(***************************************************************************)
(* Model of the answer-script revaluation pipeline                         *)
(*   backend/ai-module/revaluation.py   (rubric resolution, OCR fallback,  *)
(*                                       segmentation, scoring, output)    *)
(*   backend/ai-module/ocr_extractor.py (clean_ocr_text, main)             *)
(*                                                                         *)
(* Text is a sequence of one-character strings.  A rubric is an ordered    *)
(* mapping (Python dict, JSON object): a sequence of [key, rule] entries   *)
(* with pairwise different keys.                                           *)
(***************************************************************************)
EXTENDS Integers, Sequences, FiniteSets, TLC

VARIABLES
    \* ---- inputs of one run of revaluation.py
    argv_text,        \* sys.argv[1]
    pdf_path,         \* TRUE iff sys.argv[2] names a pdf
    argv_subject,     \* sys.argv[3]; the empty text when it is absent
    stdin_kind,       \* what stdin holds: "none" | "dict" | "nondict" | "invalid" | "unreadable"
    stdin_rubric,     \* the mapping stdin parses to when stdin_kind = "dict"
    static_rubric,    \* rubric.json as loaded at import time
    \* ---- state of the run
    pc,               \* position in the script
    full_text,
    subject_code,
    rubric,
    positions,        \* extract_by_rubric_keys: the sorted anchors
    question_answers, \* ordered mapping: sequence of [key, text]
    results,
    stdout,
    stderr,
    exit_status,      \* -1 while running
    api_outcome,      \* "not_called" or what requests.get / resp.json did
    ocr_outcome,      \* "not_called" | "raised" | "text"
    strategy,         \* "none" | "rubric" | "pattern"
    \* ---- ocr_extractor.py
    norm_hist,        \* a text followed by its successive clean_ocr_text images
    ocr_pc,
    ocr_stdout,
    ocr_exit

vars == <<argv_text, pdf_path, argv_subject, stdin_kind, stdin_rubric, static_rubric,
          pc, full_text, subject_code, rubric, positions, question_answers, results, stdout,
          stderr, exit_status, api_outcome, ocr_outcome, strategy,
          norm_hist, ocr_pc, ocr_stdout, ocr_exit>>

inputVars == <<argv_text, pdf_path, argv_subject, stdin_kind, stdin_rubric, static_rubric>>
ocrVars == <<norm_hist, ocr_pc, ocr_stdout, ocr_exit>>
runVars == <<pc, full_text, subject_code, rubric, positions, question_answers, results, stdout,
             stderr, exit_status, api_outcome, ocr_outcome, strategy>>

(***************************************************************************)
(* Python str primitives                                                   *)
(***************************************************************************)
Digits == {"0", "1", "2", "3", "4", "5", "6", "7", "8", "9"}
Whitespace == {" ", "\n", "\t"}
Separators == {".", ")", ":", "-"}

IsWordChar(c) ==
    c \in Digits \cup {"_"} \cup
          {"a", "b", "c", "d", "e", "f", "g", "h", "i", "j", "k", "l", "m",
           "n", "o", "p", "q", "r", "s", "t", "u", "v", "w", "x", "y", "z"} \cup
          {"A", "B", "C", "D", "E", "F", "G", "H", "I", "J", "K", "L", "M",
           "N", "O", "P", "Q", "R", "S", "T", "U", "V", "W", "X", "Y", "Z"}

LowerChar(c) ==
    CASE c = "A" -> "a" [] c = "B" -> "b" [] c = "C" -> "c" [] c = "D" -> "d"
      [] c = "E" -> "e" [] c = "F" -> "f" [] c = "G" -> "g" [] c = "H" -> "h"
      [] c = "I" -> "i" [] c = "J" -> "j" [] c = "K" -> "k" [] c = "L" -> "l"
      [] c = "M" -> "m" [] c = "N" -> "n" [] c = "O" -> "o" [] c = "P" -> "p"
      [] c = "Q" -> "q" [] c = "R" -> "r" [] c = "S" -> "s" [] c = "T" -> "t"
      [] c = "U" -> "u" [] c = "V" -> "v" [] c = "W" -> "w" [] c = "X" -> "x"
      [] c = "Y" -> "y" [] c = "Z" -> "z" [] OTHER -> c

UpperChar(c) ==
    CASE c = "a" -> "A" [] c = "b" -> "B" [] c = "c" -> "C" [] c = "d" -> "D"
      [] c = "e" -> "E" [] c = "f" -> "F" [] c = "g" -> "G" [] c = "h" -> "H"
      [] c = "i" -> "I" [] c = "j" -> "J" [] c = "k" -> "K" [] c = "l" -> "L"
      [] c = "m" -> "M" [] c = "n" -> "N" [] c = "o" -> "O" [] c = "p" -> "P"
      [] c = "q" -> "Q" [] c = "r" -> "R" [] c = "s" -> "S" [] c = "t" -> "T"
      [] c = "u" -> "U" [] c = "v" -> "V" [] c = "w" -> "W" [] c = "x" -> "X"
      [] c = "y" -> "Y" [] c = "z" -> "Z" [] OTHER -> c

\* str.lower()
Lower(s) == [i \in 1..Len(s) |-> LowerChar(s[i])]

\* str.upper()
Upper(s) == [i \in 1..Len(s) |-> UpperChar(s[i])]

\* s[start:end] with 0-based, end-exclusive, non-negative indices (clipped; empty when start >= end)
Slice(s, start, end) ==
    LET e == IF end > Len(s) THEN Len(s) ELSE end
    IN  IF start >= e THEN <<>> ELSE [i \in 1..(e - start) |-> s[start + i]]

RECURSIVE LStrip(_)
LStrip(s) == IF s # <<>> /\ s[1] \in Whitespace THEN LStrip(Tail(s)) ELSE s

RECURSIVE RStrip(_)
RStrip(s) ==
    IF s # <<>> /\ s[Len(s)] \in Whitespace THEN RStrip(SubSeq(s, 1, Len(s) - 1)) ELSE s

\* str.strip()
Strip(s) == RStrip(LStrip(s))

\* low_text[idx:idx+len(cand)] == cand, idx 0-based
MatchesAt(s, cand, idx) ==
    /\ idx + Len(cand) <= Len(s)
    /\ \A j \in 1..Len(cand) : s[idx + j] = cand[j]

\* str.find(cand): the lowest 0-based index of cand in s, or -1
Find(s, cand) ==
    LET hits == {idx \in 0..Len(s) : MatchesAt(s, cand, idx)}
    IN  IF hits = {} THEN -1 ELSE CHOOSE idx \in hits : \A o \in hits : idx <= o

\* cand in s
Contains(s, cand) == Find(s, cand) # -1

\* str.replace(ch, '')
RECURSIVE RemoveChar(_, _)
RemoveChar(s, ch) ==
    IF s = <<>> THEN <<>>
    ELSE IF s[1] = ch THEN RemoveChar(Tail(s), ch)
    ELSE <<s[1]>> \o RemoveChar(Tail(s), ch)

\* len(s.split()): the number of maximal runs of non-whitespace characters
WordCount(s) ==
    Cardinality({i \in 1..Len(s) :
                    /\ s[i] \notin Whitespace
                    /\ (i = 1 \/ s[i - 1] \in Whitespace)})

(***************************************************************************)
(* ocr_extractor.py: clean_ocr_text                                        *)
(***************************************************************************)
\* a run of two or more ch becomes a single ch
RECURSIVE CollapseRuns(_, _)
CollapseRuns(s, ch) ==
    IF Len(s) < 2 THEN s
    ELSE IF s[1] = ch /\ s[2] = ch THEN CollapseRuns(Tail(s), ch)
    ELSE <<s[1]>> \o CollapseRuns(Tail(s), ch)

\* re.sub(r"\n+", "\n", text)
CollapseNewlines(s) == CollapseRuns(s, "\n")

\* re.sub(r"[ ]{2,}", " ", text)
CollapseSpaces(s) == CollapseRuns(s, " ")

\* the characters re.sub(r"[^\w\s\.\)\(:\-]", "", text) keeps
IsKeptChar(c) == IsWordChar(c) \/ c \in Whitespace \/ c \in {".", ")", "(", ":", "-"}

\* re.sub(r"[^\w\s\.\)\(:\-]", "", text)
RECURSIVE RemoveGarbage(_)
RemoveGarbage(s) ==
    IF s = <<>> THEN <<>>
    ELSE IF IsKeptChar(s[1]) THEN <<s[1]>> \o RemoveGarbage(Tail(s))
    ELSE RemoveGarbage(Tail(s))

clean_ocr_text(text) ==
    Strip(RemoveGarbage(CollapseSpaces(CollapseNewlines(Lower(text)))))

(***************************************************************************)
(* Ordered mappings (dict): sequences of [key, ...] entries                *)
(***************************************************************************)
Keys(d) == [i \in 1..Len(d) |-> d[i].key]

HasKey(d, k) == \E i \in 1..Len(d) : d[i].key = k

IndexOf(d, k) == CHOOSE i \in 1..Len(d) : d[i].key = k

\* question_answers.get(k, default)
AnswerGet(d, k, default) == IF HasKey(d, k) THEN d[IndexOf(d, k)].text ELSE default

\* a mapping that records every assignment as a new entry
AnswerSetAppend(d, k, v) == Append(d, [key |-> k, text |-> v])

\* question_answers[k] = v: an existing key keeps its place, a new key goes last
AnswerSet(d, k, v) ==
    IF HasKey(d, k)
    THEN [d EXCEPT ![IndexOf(d, k)] = [key |-> k, text |-> v]]
    ELSE Append(d, [key |-> k, text |-> v])

(***************************************************************************)
(* revaluation.py: the default rule and the rubric lookup                  *)
(***************************************************************************)
default_rule ==
    [max_marks |-> 10, definition_marks |-> 3, keyword_marks |-> 4,
     explanation_marks |-> 3, keywords |-> <<>>]

\* rubric.get(qid, default_rule)
RuleFor(rub, qid) == IF HasKey(rub, qid) THEN rub[IndexOf(rub, qid)].rule ELSE default_rule

(***************************************************************************)
(* revaluation.py: load_rubric_from_api                                    *)
(***************************************************************************)
ApiOutcomes == {"exception", "non200", "badbody", "nosuccess", "ok"}

\* lines 22-31: the question paper converted to a rubric
PaperToRubric(paper) ==
    [i \in 1..Len(paper) |->
        [key |-> paper[i].questionId,
         rule |-> [max_marks |-> paper[i].maxMarks,
                   keywords |-> paper[i].keywords,
                   definition_marks |-> paper[i].definitionMarks,
                   keyword_marks |-> paper[i].keywordMarks,
                   explanation_marks |-> paper[i].explanationMarks]]]

\* [found, rubric, warnings]: found = FALSE is the None result
load_rubric_from_api(outcome, paper) ==
    CASE outcome = "exception" ->   \* requests.get raised: except branch
            [found |-> FALSE, rubric |-> <<>>,
             warnings |-> <<[warning |-> "Failed to fetch rubric from API",
                              reason |-> "request failed"]>>]
      [] outcome = "badbody" ->     \* resp.json() raised: except branch
            [found |-> FALSE, rubric |-> <<>>,
             warnings |-> <<[warning |-> "Failed to fetch rubric from API",
                              reason |-> "body is not JSON"]>>]
      [] outcome = "non200" ->      \* status_code != 200: falls to return None
            [found |-> FALSE, rubric |-> <<>>, warnings |-> <<>>]
      [] outcome = "nosuccess" ->   \* success or data missing: falls to return None
            [found |-> FALSE, rubric |-> <<>>, warnings |-> <<>>]
      [] OTHER ->
            [found |-> TRUE, rubric |-> PaperToRubric(paper), warnings |-> <<>>]

(***************************************************************************)
(* revaluation.py: extract_by_rubric_keys (pass one)                       *)
(***************************************************************************)
\* line 129: the label variants of a key, in the order they are tried
Candidates(key) ==
    LET k == Lower(key)
        bare == RemoveChar(k, "q")
    IN  <<k, k \o <<":">>, k \o <<".">>, k \o <<")">>, k \o <<"-">>,
          bare \o <<".">>, bare \o <<")">>, bare \o <<":">>>>

\* lines 130-135: the first candidate that occurs anywhere in low_text (0 when none does)
FirstCandidate(low_text, cands) ==
    LET hits == {c \in 1..Len(cands) : Find(low_text, cands[c]) # -1}
    IN  IF hits = {} THEN 0 ELSE CHOOSE c \in hits : \A o \in hits : c <= o

\* lines 126-137: one anchor (pos, label, key) per key that has a match, in rubric-key order
RECURSIVE FoundPositions(_, _)
FoundPositions(low_text, rubric_keys) ==
    IF rubric_keys = <<>> THEN <<>>
    ELSE LET key == Head(rubric_keys)
             cands == Candidates(key)
             c == FirstCandidate(low_text, cands)
             rest == FoundPositions(low_text, Tail(rubric_keys))
         IN  IF c = 0 THEN rest
             ELSE <<[pos |-> Find(low_text, cands[c]), label |-> cands[c], key |-> key]>>
                  \o rest

\* x put behind every entry whose pos is not greater: list.sort is stable
RECURSIVE InsertByPos(_, _)
InsertByPos(sorted, x) ==
    IF sorted = <<>> THEN <<x>>
    ELSE IF sorted[Len(sorted)].pos <= x.pos THEN Append(sorted, x)
    ELSE Append(InsertByPos(SubSeq(sorted, 1, Len(sorted) - 1), x), sorted[Len(sorted)])

\* line 140: positions.sort(key=lambda x: x[0])
RECURSIVE SortByPos(_)
SortByPos(ps) ==
    IF ps = <<>> THEN <<>>
    ELSE InsertByPos(SortByPos(SubSeq(ps, 1, Len(ps) - 1)), ps[Len(ps)])

SortedPositions(text, rubric_keys) == SortByPos(FoundPositions(Lower(text), rubric_keys))

\* lines 141-145: the snippet of the i-th anchor
Snippet(text, ps, i) ==
    LET start == ps[i].pos + Len(ps[i].label)
        end == IF i + 1 <= Len(ps) THEN ps[i + 1].pos ELSE Len(text)
    IN  Strip(Slice(text, start, end))

RECURSIVE FillAnswers(_, _, _, _)
FillAnswers(answers, text, ps, i) ==
    IF i > Len(ps) THEN answers
    ELSE FillAnswers(AnswerSet(answers, ps[i].key, Snippet(text, ps, i)), text, ps, i + 1)

extract_by_rubric_keys(text, rubric_keys) ==
    FillAnswers(<<>>, text, SortedPositions(text, rubric_keys), 1)

(***************************************************************************)
(* revaluation.py lines 152-179: the rubric strategy with its fallback     *)
(***************************************************************************)
\* lines 157-162
RECURSIVE InitialAnswers(_, _, _)
InitialAnswers(qa, extracted, rubric_keys) ==
    IF rubric_keys = <<>> THEN qa
    ELSE LET k == Head(rubric_keys)
             v == IF HasKey(extracted, k) /\ Strip(AnswerGet(extracted, k, <<>>)) # <<>>
                  THEN AnswerGet(extracted, k, <<>>)
                  ELSE <<>>
         IN  InitialAnswers(AnswerSet(qa, k, v), extracted, Tail(rubric_keys))

\* line 172
ChunkSize(text_len, n) == IF text_len \div n > 1 THEN text_len \div n ELSE 1

\* lines 175-177: the chunk of the key at 0-based index idx
Chunk(text, n, idx) ==
    LET chunk_size == ChunkSize(Len(text), n)
        start == idx * chunk_size
        end == IF idx < n - 1 THEN (idx + 1) * chunk_size ELSE Len(text)
    IN  Strip(Slice(text, start, end))

\* lines 173-177
RECURSIVE FillChunks(_, _, _, _)
FillChunks(qa, text, rubric_keys, idx) ==
    IF idx >= Len(rubric_keys) THEN qa
    ELSE LET k == rubric_keys[idx + 1]
             next == IF Strip(AnswerGet(qa, k, <<>>)) = <<>>
                     THEN AnswerSet(qa, k, Chunk(text, Len(rubric_keys), idx))
                     ELSE qa
         IN  FillChunks(next, text, rubric_keys, idx + 1)

\* lines 166-177
FallbackChunks(qa, text, rubric_keys) ==
    LET empty_keys == {i \in 1..Len(qa) : Strip(qa[i].text) = <<>>}
    IN  IF empty_keys # {} /\ Strip(text) # <<>>
        THEN FillChunks(qa, text, rubric_keys, 0)
        ELSE qa

SegmentByRubricKeys(text, rubric_keys) ==
    FallbackChunks(InitialAnswers(<<>>, extract_by_rubric_keys(text, rubric_keys), rubric_keys),
                   text, rubric_keys)

(***************************************************************************)
(* revaluation.py lines 182-194: the pattern strategy                      *)
(*   (?:q)?(\d+)[\.\):\-]?\s*(.*?)(?=(?:q?\d+[\.\):\-]?\s)|$)   re.DOTALL  *)
(* Positions are 1-based; Len(s) + 1 is the end of the text.               *)
(***************************************************************************)
\* the position behind the run of digits that starts at p
RECURSIVE DigitsEnd(_, _)
DigitsEnd(s, p) == IF p <= Len(s) /\ s[p] \in Digits THEN DigitsEnd(s, p + 1) ELSE p

\* \s* (greedy): the position behind the run of whitespace that starts at p
RECURSIVE SkipSpace(_, _)
SkipSpace(s, p) == IF p <= Len(s) /\ s[p] \in Whitespace THEN SkipSpace(s, p + 1) ELSE p

\* (?:q)?(\d+) can start at p: where its digits start, or 0
LabelDigitsAt(s, p) ==
    IF p <= Len(s) /\ s[p] = "q" /\ p + 1 <= Len(s) /\ s[p + 1] \in Digits THEN p + 1
    ELSE IF p <= Len(s) /\ s[p] \in Digits THEN p
    ELSE 0

\* $ without re.MULTILINE: the end of the text, or just before a final newline
AtEnd(s, e) == e = Len(s) + 1 \/ (e = Len(s) /\ s[e] = "\n")

\* the lookahead (?=(?:q?\d+[\.\):\-]?\s)|$) holds at e
LookaheadAt(s, e) ==
    \/ LET d == LabelDigitsAt(s, e)
           f == DigitsEnd(s, d)
       IN  /\ d # 0
           /\ f <= Len(s)
           /\ \/ s[f] \in Whitespace
              \/ s[f] \in Separators /\ f + 1 <= Len(s) /\ s[f + 1] \in Whitespace
    \/ AtEnd(s, e)

\* (.*?): the first position from b on at which the lookahead holds
RECURSIVE BodyEnd(_, _)
BodyEnd(s, b) == IF LookaheadAt(s, b) THEN b ELSE BodyEnd(s, b + 1)

\* re.findall(pattern, s, re.DOTALL) from position p on: the (q_number, answer_text) pairs
RECURSIVE FindAllFrom(_, _)
FindAllFrom(s, p) ==
    IF p > Len(s) THEN <<>>
    ELSE LET d == LabelDigitsAt(s, p)
         IN  IF d = 0 THEN FindAllFrom(s, p + 1)
             ELSE LET f == DigitsEnd(s, d)
                      g == IF f <= Len(s) /\ s[f] \in Separators THEN f + 1 ELSE f
                      b == SkipSpace(s, g)
                      e == BodyEnd(s, b)
                  IN  <<[q_number |-> SubSeq(s, d, f - 1),
                         answer_text |-> SubSeq(s, b, e - 1)]>>
                      \o FindAllFrom(s, e)

FindAll(s) == FindAllFrom(s, 1)

\* lines 185-193: the key a match is recorded under
MatchKey(rub, q_number) ==
    LET qid == <<"Q">> \o q_number
    IN  IF HasKey(rub, qid) THEN qid
        ELSE IF HasKey(rub, Lower(qid)) THEN Lower(qid)
        ELSE qid

\* line 194: question_answers[key] = question_answers.get(key, "") + " " + answer_text
Accumulate(qa, key, answer_text) ==
    AnswerSet(qa, key, AnswerGet(qa, key, <<>>) \o <<" ">> \o answer_text)

RECURSIVE AccumulateAll(_, _, _)
AccumulateAll(qa, rub, matches) ==
    IF matches = <<>> THEN qa
    ELSE AccumulateAll(
            Accumulate(qa, MatchKey(rub, Head(matches).q_number), Head(matches).answer_text),
            rub, Tail(matches))

SegmentByPattern(text, rub) == AccumulateAll(<<>>, rub, FindAll(text))

(***************************************************************************)
(* revaluation.py lines 209-245: scoring one question                      *)
(***************************************************************************)
DefinitionMinLen == 10
ExplanationMinWords == 15
MarksPerKeyword == 2

Min(a, b) == IF a <= b THEN a ELSE b

\* lines 217-221
DefinitionScore(rule, answer_text) ==
    IF Len(Strip(answer_text)) > DefinitionMinLen THEN rule.definition_marks ELSE 0

\* lines 224-227: one count per entry of rule["keywords"] found in the answer
KeywordCount(rule, answer_text) ==
    Cardinality({i \in 1..Len(rule.keywords) :
                    Contains(Lower(answer_text), Lower(rule.keywords[i]))})

\* line 229
KeywordScore(rule, answer_text) ==
    Min(KeywordCount(rule, answer_text) * MarksPerKeyword, rule.keyword_marks)

\* lines 234-238
ExplanationScore(rule, answer_text) ==
    IF WordCount(answer_text) > ExplanationMinWords THEN rule.explanation_marks ELSE 0

\* lines 240-245: the Result entry of one question
ScoreQuestion(rub, qid, answer_text) ==
    LET rule == RuleFor(rub, qid)
    IN  [question |-> qid,
         suggested_marks |-> DefinitionScore(rule, answer_text)
                             + KeywordScore(rule, answer_text)
                             + ExplanationScore(rule, answer_text),
         max_marks |-> rule.max_marks,
         breakdown |-> [definition |-> DefinitionScore(rule, answer_text),
                        keywords |-> KeywordScore(rule, answer_text),
                        explanation |-> ExplanationScore(rule, answer_text)]]

(***************************************************************************)
(* The environment of a run: what the API and the OCR collaborator return  *)
(***************************************************************************)
Q1 == <<"Q", "1">>
Q2 == <<"Q", "2">>
Q10 == <<"Q", "1", "0">>

KwAb == <<"a", "b">>
KwAbUpper == <<"A", "b">>
KwC == <<"c">>
KwZz == <<"z", "z">>
KwEmpty == <<>>

\* the rubric with the given keys, every key under the same rule
RubricOf(keys, rule) == [i \in 1..Len(keys) |-> [key |-> keys[i], rule |-> rule]]

PlainRule ==
    [max_marks |-> 10, definition_marks |-> 3, keyword_marks |-> 4,
     explanation_marks |-> 3, keywords |-> <<KwAb>>]

\* question papers the API may answer with (data.questions)
ApiPapers ==
    {<<>>,
     <<[questionId |-> Q1, maxMarks |-> 10, keywords |-> <<KwAb>>,
        definitionMarks |-> 3, keywordMarks |-> 4, explanationMarks |-> 3]>>}

\* texts extract_text_with_ocr may return (page texts end with a newline)
OcrTexts ==
    {<<>>, <<"Q", "1", " ", "A", "b", "\n">>, <<"1", " ", "a", " ", "2", " ", "b", "\n">>, <<" ", "\n">>}

(***************************************************************************)
(* revaluation.py: the run, one action per block of the script             *)
(***************************************************************************)
\* lines 78-82
ReadArgs ==
    /\ pc = "args"
    /\ full_text' = Lower(Strip(argv_text))
    /\ subject_code' = Upper(Strip(argv_subject))
    /\ pc' = "stdin"
    /\ UNCHANGED <<rubric, positions, question_answers, results, stdout, stderr,
                   exit_status, api_outcome, ocr_outcome, strategy>>
    /\ UNCHANGED inputVars
    /\ UNCHANGED ocrVars

\* a truthiness test in place of the type test: {} is not accepted
AcceptsParsedTruthy(kind, parsed) == kind = "dict" /\ parsed # <<>>

\* line 90: isinstance(parsed, dict)
AcceptsParsed(kind, parsed) == kind = "dict"

\* lines 98-101: the API is asked only when stdin is empty and a subject code is given
FetchNeeded(kind, code) == kind = "none" /\ code # <<>>

\* line 100: if api_rubric
ApiRubricUsable(r) == r.found /\ r.rubric # <<>>

\* lines 93-95, 102-103: the warnings of the stdin block itself
StdinWarnings(kind) ==
    CASE kind = "invalid" ->
            <<[warning |-> "Invalid rubric JSON on stdin", reason |-> "JSONDecodeError"]>>
      [] kind = "unreadable" ->
            <<[warning |-> "Failed reading stdin for rubric", reason |-> "read failed"]>>
      [] OTHER -> <<>>

\* lines 85-103; the API's answer is the environment's choice
ReadStdinRubric ==
    /\ pc = "stdin"
    /\ \E outcome \in IF FetchNeeded(stdin_kind, subject_code)
                      THEN ApiOutcomes ELSE {"not_called"} :
         \E paper \in IF outcome = "ok" THEN ApiPapers ELSE {<<>>} :
            LET r == IF outcome = "not_called"
                     THEN [found |-> FALSE, rubric |-> <<>>, warnings |-> <<>>]
                     ELSE load_rubric_from_api(outcome, paper)
            IN  /\ api_outcome' = outcome
                /\ rubric' = IF AcceptsParsed(stdin_kind, stdin_rubric) THEN stdin_rubric
                             ELSE IF ApiRubricUsable(r) THEN r.rubric
                             ELSE rubric
                /\ stderr' = stderr \o StdinWarnings(stdin_kind) \o r.warnings
    /\ pc' = "ocr"
    /\ UNCHANGED <<full_text, subject_code, positions, question_answers, results, stdout,
                   exit_status, ocr_outcome, strategy>>
    /\ UNCHANGED inputVars
    /\ UNCHANGED ocrVars

\* line 107
OcrNeeded(text, pdf) == text = <<>> /\ pdf

\* line 114
OcrFailureExit == 0

\* lines 110-113
OcrErrorDocument == [kind |-> "error", fields |-> {"error", "reason"}, results |-> <<>>]

\* lines 106-114; what extract_text_with_ocr does is the environment's choice
OcrFallback ==
    /\ pc = "ocr"
    /\ \E outcome \in IF OcrNeeded(full_text, pdf_path)
                      THEN {"raised", "text"} ELSE {"not_called"} :
         \E t \in IF outcome = "text" THEN OcrTexts ELSE {<<>>} :
            /\ ocr_outcome' = outcome
            /\ full_text' = IF outcome = "text" THEN Lower(t) ELSE full_text
            /\ stdout' = IF outcome = "raised" THEN Append(stdout, OcrErrorDocument)
                         ELSE stdout
            /\ exit_status' = IF outcome = "raised" THEN OcrFailureExit ELSE exit_status
            /\ pc' = IF outcome = "raised" THEN "exited" ELSE "segment"
    /\ UNCHANGED <<subject_code, rubric, positions, question_answers, results, stderr,
                   api_outcome, strategy>>
    /\ UNCHANGED inputVars
    /\ UNCHANGED ocrVars

\* line 152
rubric_keys == Keys(rubric)

\* lines 153-179
SegmentRubric ==
    /\ pc = "segment"
    /\ rubric_keys # <<>>
    /\ positions' = SortedPositions(full_text, rubric_keys)
    /\ question_answers' = SegmentByRubricKeys(full_text, rubric_keys)
    /\ strategy' = "rubric"
    /\ pc' = "score"
    /\ UNCHANGED <<full_text, subject_code, rubric, results, stdout, stderr, exit_status,
                   api_outcome, ocr_outcome>>
    /\ UNCHANGED inputVars
    /\ UNCHANGED ocrVars

\* lines 180-194
SegmentPattern ==
    /\ pc = "segment"
    /\ rubric_keys = <<>>
    /\ question_answers' = SegmentByPattern(full_text, rubric)
    /\ strategy' = "pattern"
    /\ pc' = "score"
    /\ UNCHANGED <<full_text, subject_code, rubric, positions, results, stdout, stderr,
                   exit_status, api_outcome, ocr_outcome>>
    /\ UNCHANGED inputVars
    /\ UNCHANGED ocrVars

\* lines 209-245: one Result per entry of question_answers, in its order
ScoreAll(rub, qa) == [i \in 1..Len(qa) |-> ScoreQuestion(rub, qa[i].key, qa[i].text)]

Score ==
    /\ pc = "score"
    /\ results' = ScoreAll(rubric, question_answers)
    /\ pc' = "output"
    /\ UNCHANGED <<full_text, subject_code, rubric, positions, question_answers, stdout,
                   stderr, exit_status, api_outcome, ocr_outcome, strategy>>
    /\ UNCHANGED inputVars
    /\ UNCHANGED ocrVars

\* the status of a script that runs off its end
NormalExit == 0

\* line 249
Output ==
    /\ pc = "output"
    /\ stdout' = Append(stdout, [kind |-> "results", fields |-> {}, results |-> results])
    /\ exit_status' = NormalExit
    /\ pc' = "done"
    /\ UNCHANGED <<full_text, subject_code, rubric, positions, question_answers, results,
                   stderr, api_outcome, ocr_outcome, strategy>>
    /\ UNCHANGED inputVars
    /\ UNCHANGED ocrVars

(***************************************************************************)
(* ocr_extractor.py: the normalizer applied, and main                      *)
(***************************************************************************)
MaxApplications == 2

Last(h) == h[Len(h)]

\* clean_ocr_text applied to the latest text
Normalize ==
    /\ ocr_pc \in {"main", "done"}
    /\ Len(norm_hist) <= MaxApplications
    /\ norm_hist' = Append(norm_hist, clean_ocr_text(Last(norm_hist)))
    /\ UNCHANGED <<ocr_pc, ocr_stdout, ocr_exit>>
    /\ UNCHANGED inputVars
    /\ UNCHANGED runVars

\* lines 39-43: one page, extracted_text = "\n" + page_text, then cleaned
extract_text_from_pdf(page_text) == clean_ocr_text(<<"\n">> \o page_text)

\* line 60 is not reached: json is not imported, the handler's print raises NameError
OcrMainFailureExit == 1

OcrMainNormalExit == 0

\* lines 47-60 with a pdf argument; the page text is norm_hist[1]
OcrExtractorMain ==
    /\ ocr_pc = "main"
    /\ \E outcome \in {"text", "raised"} :
         /\ ocr_stdout' = IF outcome = "text"
                          THEN <<extract_text_from_pdf(norm_hist[1])>> ELSE <<>>
         /\ ocr_exit' = IF outcome = "text" THEN OcrMainNormalExit ELSE OcrMainFailureExit
    /\ ocr_pc' = "done"
    /\ UNCHANGED norm_hist
    /\ UNCHANGED inputVars
    /\ UNCHANGED runVars

(***************************************************************************)
(* Initial states and specifications                                       *)
(***************************************************************************)
\* every text over chars of length at most n
TextsUpTo(chars, n) == UNION {[1..m -> chars] : m \in 0..n}

\* the state of the script after its imports (line 48: rubric = static_rubric.copy())
RunStart ==
    /\ pc = "args"
    /\ full_text = <<>>
    /\ subject_code = <<>>
    /\ rubric = static_rubric
    /\ positions = <<>>
    /\ question_answers = <<>>
    /\ results = <<>>
    /\ stdout = <<>>
    /\ stderr = <<>>
    /\ exit_status = -1
    /\ api_outcome = "not_called"
    /\ ocr_outcome = "not_called"
    /\ strategy = "none"

OcrIdle ==
    /\ norm_hist = <<<<>>>>
    /\ ocr_pc = "idle"
    /\ ocr_stdout = <<>>
    /\ ocr_exit = -1

Next ==
    \/ ReadArgs
    \/ ReadStdinRubric
    \/ OcrFallback
    \/ SegmentRubric
    \/ SegmentPattern
    \/ Score
    \/ Output

\* ---- Spec: the inputs and collaborators of a run, over a few texts and rubrics
StdinKinds == {"none", "dict", "nondict", "invalid", "unreadable"}

EnvTexts == {<<>>, <<" ">>, <<"Q", "1", ":", " ", "a", "b", " ", "Q", "2", ":", " ", "c", "d">>, <<" ", "1", " ", "a", "b", " ", "2", " ", "c", "d", " ">>}

EnvSubjects == {<<>>, <<" ">>, <<"c", "s", "1">>}

EnvRubrics == {<<>>, RubricOf(<<Q1, Q2>>, PlainRule), RubricOf(<<Q2>>, default_rule)}

Init ==
    /\ argv_text \in EnvTexts
    /\ pdf_path \in BOOLEAN
    /\ argv_subject \in EnvSubjects
    /\ stdin_kind \in StdinKinds
    /\ stdin_rubric \in IF stdin_kind = "dict" THEN EnvRubrics ELSE {<<>>}
    /\ static_rubric \in EnvRubrics
    /\ RunStart
    /\ OcrIdle

Spec == Init /\ [][Next]_vars

\* ---- SpecSeg: segmentation of every short text under a few rubric key lists
MaxTextLen == 5

SegChars == {"q", "1", "0", ":", " ", "a"}

SegKeyLists == {<<Q1, Q2>>, <<Q1, Q10>>, <<Q10, Q1>>}

InitSeg ==
    /\ argv_text \in TextsUpTo(SegChars, MaxTextLen)
    /\ pdf_path = FALSE
    /\ argv_subject = <<>>
    /\ stdin_kind = "dict"
    /\ stdin_rubric \in {<<>>} \cup {RubricOf(ks, PlainRule) : ks \in SegKeyLists}
    /\ static_rubric = <<>>
    /\ RunStart
    /\ OcrIdle

SpecSeg == InitSeg /\ [][Next]_vars

\* ---- SpecOcr: ocr_extractor.py over every short page text
MaxRawLen == 5

RawChars == {"a", "A", " ", "\n", "$"}

InitOcr ==
    /\ norm_hist \in {<<t>> : t \in TextsUpTo(RawChars, MaxRawLen)}
    /\ ocr_pc = "main"
    /\ ocr_stdout = <<>>
    /\ ocr_exit = -1
    /\ argv_text = <<>>
    /\ pdf_path = TRUE
    /\ argv_subject = <<>>
    /\ stdin_kind = "none"
    /\ stdin_rubric = <<>>
    /\ static_rubric = <<>>
    /\ RunStart

NextOcr ==
    \/ Normalize
    \/ OcrExtractorMain

SpecOcr == InitOcr /\ [][NextOcr]_vars

\* ---- SpecAgg: both strategies through scoring and output
MaxAggLen == 5

AggChars == {"q", "1", "2", " ", "a"}

\* longer texts in which a question number recurs among others
AggExtraTexts == {<<"1", " ", "a", " ", "1", " ", "a", " ", "2", " ", "a", " ", "1", " ", "a">>, <<"q", "2", " ", "a", " ", "q", "1", " ", "a", " ", "q", "2", " ", "a">>, <<"a", " ", "2", " ", "1", " ", "2", " ", "a">>}

AggKeyLists == {<<Q1, Q2>>, <<Q2, Q1>>}

InitAgg ==
    /\ argv_text \in TextsUpTo(AggChars, MaxAggLen) \cup AggExtraTexts
    /\ pdf_path \in IF argv_text = <<>> THEN BOOLEAN ELSE {FALSE}
    /\ argv_subject = <<>>
    /\ stdin_kind = "dict"
    /\ stdin_rubric \in {<<>>} \cup {RubricOf(ks, PlainRule) : ks \in AggKeyLists}
    /\ static_rubric = <<>>
    /\ RunStart
    /\ OcrIdle

SpecAgg == InitAgg /\ [][Next]_vars

\* ---- SpecLab: texts in which every rubric key is a label followed by its answer body
MaxBodyLen == 2

BodyChars == {"a", "B", " ", "."}

BodyAlpha == <<"a", "l", "p", "h", "a", " ", "b", "e", "t", "a", " ", "g", "a", "m", "m", "a", ".">>
BodyDelta == <<"d", "e", "l", "t", "a", " ", "e", "p", "s", "i", "l", "o", "n">>

\* answer bodies: not blank, holding no label
LabBodies ==
    {b \in TextsUpTo(BodyChars, MaxBodyLen) : Strip(b) # <<>>} \cup {BodyAlpha, BodyDelta}

\* "Q1<sep> <b1> Q2<sep> <b2>"
Labelled(sep, b1, b2) ==
    Q1 \o <<sep, " ">> \o b1 \o <<" ">> \o Q2 \o <<sep, " ">> \o b2

InitLab ==
    /\ argv_text \in {Labelled(sep, b1, b2) : sep \in Separators, b1 \in LabBodies,
                                                  b2 \in LabBodies}
    /\ pdf_path = FALSE
    /\ argv_subject = <<>>
    /\ stdin_kind = "dict"
    /\ stdin_rubric \in {<<>>, RubricOf(<<Q1, Q2>>, PlainRule)}
    /\ static_rubric = <<>>
    /\ RunStart
    /\ OcrIdle

SpecLab == InitLab /\ [][Next]_vars

\* ---- SpecScore: one question, its rule and its answer varied
MaxWords == 17

ScoreWords == {KwAb, KwC, <<"A", "b", "z">>}

RECURSIVE Repeat(_, _)
Repeat(w, n) ==
    IF n = 0 THEN <<>> ELSE IF n = 1 THEN w ELSE w \o <<" ">> \o Repeat(w, n - 1)

\* answers of 0..MaxWords words, and one-word answers at the definition threshold,
\* bare or behind the question number "1 "
ScoreTexts ==
    {pre \o t : pre \in {<<>>, <<"1", " ">>},
                t \in {Repeat(w, n) : w \in ScoreWords, n \in 0..MaxWords}
                        \cup {<<"a", "b", "c", "d", "e", "f", "g", "h", "i", "j">>, <<"a", "b", "c", "d", "e", "f", "g", "h", "i", "j", "k">>}}

ScoreKeywordLists ==
    {<<>>, <<KwAb>>, <<KwAb, KwAbUpper>>, <<KwAb, KwC>>, <<KwAb, KwC, KwZz>>, <<KwEmpty>>}

ScoreRules ==
    {[max_marks |-> m, definition_marks |-> d, keyword_marks |-> k,
      explanation_marks |-> e, keywords |-> kws] :
        m \in {6, 10}, d \in {0, 3}, k \in {0, 1, 4}, e \in {0, 3},
        kws \in ScoreKeywordLists}

InitScore ==
    /\ argv_text \in ScoreTexts
    /\ pdf_path = FALSE
    /\ argv_subject = <<>>
    /\ stdin_kind = "dict"
    /\ stdin_rubric \in {<<>>} \cup {RubricOf(<<Q1>>, r) : r \in ScoreRules}
    /\ static_rubric = <<>>
    /\ RunStart
    /\ OcrIdle

SpecScore == InitScore /\ [][Next]_vars

(***************************************************************************)
(* Properties                                                              *)
(***************************************************************************)
Segmented == pc \in {"score", "output", "done"}

Scored == pc \in {"output", "done"}

Resolved == pc \notin {"args", "stdin"}

\* C1: under the rubric strategy, when the full text is not blank, every rubric key
\* is mapped to a segment that is not blank, whatever the number of keys and the
\* length of the text.
C1_EveryKeyNonEmpty ==
    (Segmented /\ strategy = "rubric" /\ Strip(full_text) # <<>>) =>
        /\ Keys(question_answers) = rubric_keys
        /\ \A i \in 1..Len(question_answers) : Strip(question_answers[i].text) # <<>>

\* C2: when the text is "Q1<sep> body1 Q2<sep> body2" for a listed separator and the
\* rubric keys are Q1, Q2, the segment of each key is its body, trimmed (and in lower
\* case), without the label and without the separator; the spec's example
\* "Q1: alpha beta gamma. Q2: delta epsilon" is among the texts.
C2_LabelledBodies ==
    (Segmented /\ strategy = "rubric") =>
        \A sep \in Separators, b1 \in LabBodies, b2 \in LabBodies :
            argv_text = Labelled(sep, b1, b2) =>
                question_answers = <<[key |-> Q1, text |-> Lower(Strip(b1))],
                                     [key |-> Q2, text |-> Lower(Strip(b2))]>>

\* C3: clean_ocr_text is idempotent: cleaning a cleaned text changes nothing.
C3_Idempotent ==
    Len(norm_hist) >= 3 => norm_hist[3] = norm_hist[2]

\* C4: when the text is empty, a pdf is given and OCR raises, stdout holds exactly the
\* error document {error, reason}, no Result sequence, and the exit status differs
\* from the status of a successful evaluation.
C4_OcrFailureDistinctExit ==
    ocr_outcome = "raised" =>
        /\ pc = "exited"
        /\ stdout = <<OcrErrorDocument>>
        /\ exit_status # NormalExit

\* C5: when stdin holds the empty mapping {}, no fetch is attempted, the effective
\* rubric is {} whatever the subject code and the static rubric are, and the pattern
\* strategy is the one selected.
C5_EmptyStdinRubricHonoured ==
    (Resolved /\ stdin_kind = "dict" /\ stdin_rubric = <<>>) =>
        /\ api_outcome = "not_called"
        /\ rubric = <<>>
        /\ strategy \in {"none", "pattern"}
        /\ Segmented => strategy = "pattern"

C5_Witness ==
    /\ pc = "done"
    /\ stdin_kind = "dict"
    /\ stdin_rubric = <<>>
    /\ subject_code # <<>>
    /\ static_rubric # <<>>
    /\ strategy = "pattern"
    /\ results # <<>>

FetchFailed == api_outcome \in {"exception", "non200", "badbody", "nosuccess"}

StdinUnusable == stdin_kind \in {"invalid", "nondict"}

\* C6: whenever the fetch fails (exception, non-200, malformed body, no success
\* indicator) or the stdin rubric is unusable (invalid JSON, not a mapping), at least
\* one warning with a reason is on stderr, nothing is on stdout, and the effective
\* rubric is the static fallback.
C6_FailuresWarned ==
    (pc = "ocr" /\ (FetchFailed \/ StdinUnusable)) =>
        /\ Len(stderr) >= 1
        /\ \A i \in 1..Len(stderr) : stderr[i].reason # ""
        /\ stdout = <<>>
        /\ rubric = static_rubric

WellFormedRule(rule) ==
    /\ rule.definition_marks >= 0
    /\ rule.keyword_marks >= 0
    /\ rule.explanation_marks >= 0
    /\ rule.definition_marks + rule.keyword_marks + rule.explanation_marks
            <= rule.max_marks

\* C7: for every Result whose rule is well formed: definition is 0 or
\* definition_marks, keywords lies in 0..keyword_marks, explanation is 0 or
\* explanation_marks, suggested_marks is their sum and lies in 0..max_marks; for an
\* empty answer text all of them are 0.
C7_ScoreBounds ==
    Scored =>
        /\ Len(results) = Len(question_answers)
        /\ \A i \in 1..Len(results) :
            LET r == results[i]
                rule == RuleFor(rubric, r.question)
                b == r.breakdown
            IN  WellFormedRule(rule) =>
                    /\ b.definition \in {0, rule.definition_marks}
                    /\ b.keywords \in 0..rule.keyword_marks
                    /\ b.explanation \in {0, rule.explanation_marks}
                    /\ r.suggested_marks = b.definition + b.keywords + b.explanation
                    /\ r.suggested_marks \in 0..r.max_marks
                    /\ question_answers[i].text = <<>> =>
                            /\ b.definition = 0
                            /\ b.keywords = 0
                            /\ b.explanation = 0
                            /\ r.suggested_marks = 0

\* the number of distinct keywords, letter case ignored, that occur in the answer
DistinctKeywordCount(rule, answer_text) ==
    Cardinality({Lower(rule.keywords[i]) : i \in
                    {j \in 1..Len(rule.keywords) :
                        Contains(Lower(answer_text), Lower(rule.keywords[j]))}})

\* C8: breakdown.keywords = min(2 * c, keyword_marks), c the number of distinct
\* keywords (case-insensitively) occurring in the answer: a keyword counts once
\* however often it occurs in the answer or is listed in the rule.
C8_DistinctKeywords ==
    Scored =>
        \A i \in 1..Len(results) :
            LET rule == RuleFor(rubric, results[i].question)
            IN  results[i].breakdown.keywords =
                    Min(2 * DistinctKeywordCount(rule, question_answers[i].text),
                        rule.keyword_marks)

\* the members of a sequence in the order of their first occurrence
RECURSIVE FirstSeen(_)
FirstSeen(q) ==
    IF q = <<>> THEN <<>>
    ELSE LET before == FirstSeen(SubSeq(q, 1, Len(q) - 1))
         IN  IF \E i \in 1..Len(before) : before[i] = q[Len(q)]
             THEN before ELSE Append(before, q[Len(q)])

Questions(rs) == [i \in 1..Len(rs) |-> rs[i].question]

PatternIds(text) ==
    LET ms == FindAll(text) IN [i \in 1..Len(ms) |-> <<"Q">> \o ms[i].q_number]

\* C9: the Result sequence holds one entry per question identifier of the
\* segmentation mapping, in the order of first insertion: rubric-key order under the
\* rubric strategy (fallback-filled and empty keys included), first-match order under
\* the pattern strategy with a recurring number kept in its first entry; the sequence
\* is written to stdout once.
C9_ResultOrder ==
    Scored =>
        /\ Questions(results) = Keys(question_answers)
        /\ \A i, j \in 1..Len(results) :
                results[i].question = results[j].question => i = j
        /\ strategy = "rubric" => Questions(results) = rubric_keys
        /\ strategy = "pattern" => Questions(results) = FirstSeen(PatternIds(full_text))
        /\ pc = "done" =>
                stdout = <<[kind |-> "results", fields |-> {}, results |-> results]>>

C9_Witness ==
    /\ pc = "done"
    /\ strategy = "pattern"
    /\ Len(results) >= 2
    /\ Len(FindAll(full_text)) > Len(results)
    /\ results[1].question # FirstSeen(PatternIds(full_text))[Len(results)]

\* where the slice of the i-th anchor ends (line 143)
SliceEnd(text, ps, i) == IF i + 1 <= Len(ps) THEN ps[i + 1].pos ELSE Len(text)

\* the i-th anchor lies inside an occurrence of a longer label variant of the key
\* other, and its slice holds text from behind that occurrence
CapturesBehindLabelOf(text, ps, i, other) ==
    \E c \in 1..Len(Candidates(other)) :
        LET lab == Candidates(other)[c]
        IN  /\ Len(lab) > Len(ps[i].label)
            /\ \E o \in 0..Len(text) :
                /\ MatchesAt(Lower(text), lab, o)
                /\ o <= ps[i].pos
                /\ ps[i].pos + Len(ps[i].label) <= o + Len(lab)
                /\ Strip(Slice(text, o + Len(lab), SliceEnd(text, ps, i))) # <<>>

\* C10: no key's anchor lies inside an occurrence of another rubric key's label (also
\* when one key is a prefix of the other, in either rubric order) in such a way that
\* the key is given the text behind that label while the other key gets nothing from
\* pass one and is left empty or to the positional fallback.
C10_NoCrossKeyCapture ==
    (Segmented /\ strategy = "rubric") =>
        LET extracted == extract_by_rubric_keys(full_text, rubric_keys)
        IN  \A i \in 1..Len(positions), j \in 1..Len(rubric_keys) :
                ~ /\ rubric_keys[j] # positions[i].key
                  /\ CapturesBehindLabelOf(full_text, positions, i, rubric_keys[j])
                  /\ AnswerGet(question_answers, positions[i].key, <<>>)
                        = AnswerGet(extracted, positions[i].key, <<>>)
                  /\ Strip(AnswerGet(extracted, rubric_keys[j], <<>>)) = <<>>

====
